---- MODULE Spec2Model ----
(***************************************************************************)
(* Model of the multithreaded file downloader: main.py (the orchestrator)  *)
(* and downloader_funcs.py (the per-row job thread_job and its helpers).   *)
(*                                                                         *)
(* Strings that the program inspects or builds are sequences of tokens     *)
(* (the content-type header and FILETYPE are sequences of characters, the  *)
(* "exceptions encountered" cell is a joined sequence).  A file is an      *)
(* inode number plus the sequence of chunks written so far; a path holds   *)
(* at most one file, and os.replace moves the inode from one path to the   *)
(* other (POSIX rename).                                                   *)
(***************************************************************************)
EXTENDS Integers, Sequences, FiniteSets, TLC

\* ---------------------------------------------------------------- bounds
\* Most rows of an input file with one link column.
MaxRows == 2
\* Rows of the input file when the worker pool is the subject (SpecPool).
PoolRows == 3
\* Most link columns of the settings profile (the input then has one row).
MaxLinkCols == 3
\* Number of chunks the operating system writes a payload in.
ChunkCount == 1

\* ------------------------------------------------------------- constants
\* ThreadPoolExecutor's worker count when connections_limit is None:
\* min(32, cpu_count + 4), which is at least 5.
DefaultWorkers == 5

\* connections_limit = None is written 0.
NoLimit == 0

\* settings["download_filetype"]
FILETYPE == <<"p", "d", "f">>

\* The values of the naming column, in ascending order.
Names == <<"a", "b", "c", "d">>
NameSet == {Names[i] : i \in 1..Len(Names)}
Rank(n) == CHOOSE i \in 1..Len(Names) : Names[i] = n

\* The URL found in link column j of a row, when the cell is not empty.
AllLinkCols == <<"A", "B", "C", "D">>

VARIABLES
    settingsState,    \* "ok" | "missing_key" | "bad_input" | "bad_report"
    DOWNLOAD_ALL,     \* settings["do_download_all"]
    LINK_COLS,        \* settings["link_columns"]
    inputFile,        \* the rows of the spreadsheet at INPUT_FILE
    connections_limit,\* main's argument: NoLimit or a positive integer
    mainPc,           \* position of the main thread
    rows,             \* the rows load_input returned
    nextRow,          \* index of the next row main submits
    tasks,            \* one record per row: the thread_job call for it
    fs,               \* the two download folders: path -> file
    reports,          \* the shared reports list
    reportFile,       \* REPORT_FILE: "absent" | "empty" | rows written
    writeCalls        \* number of write_report calls so far

vars == <<settingsState, DOWNLOAD_ALL, LINK_COLS, inputFile, connections_limit, mainPc,
          rows, nextRow, tasks, fs, reports, reportFile, writeCalls>>

\* ------------------------------------------------------------ file system
NoFile == [ino |-> 0, data |-> <<>>]
Hole == <<"hole", 0>>

\* Mutant: the payload is written straight to the final path.
SavePathDirect(name) == <<"dl", name>>
\* save_path = TEMP_DL_FOLDER + name + "." + FILETYPE
SavePath(name) == <<"temp", name>>
\* final_path = DL_FOLDER + name + "." + FILETYPE
FinalPath(name) == <<"dl", name>>
Paths == {SavePath(n) : n \in NameSet} \cup {FinalPath(n) : n \in NameSet}

\* The body of the file a URL serves, as the chunks the OS writes.
Payload(u) == [i \in 1..ChunkCount |-> <<u, i>>]
\* A complete file left in the downloads folder by an earlier run.
OldPayload == [i \in 1..ChunkCount |-> <<"old", i>>]
\* A partly written file left in the temporary folder by an earlier run.
StalePayload == <<<<"old", 1>>>>

\* Inodes of files that exist before the program starts.
OldFinalIno(n) == 0 - Rank(n)
OldStagingIno(n) == 0 - (Len(Names) + Rank(n))

\* What the folders hold at start: nothing, or what an earlier run left for
\* the first name: its downloaded file, with or without a stale staged one.
PriorChoices == {"none", "final", "both"} \X {Names[1]}
PriorFs(c) ==
    [p \in Paths |->
        IF c[1] \in {"final", "both"} /\ p = FinalPath(c[2])
            THEN [ino |-> OldFinalIno(c[2]), data |-> OldPayload]
        ELSE IF c[1] \in {"staging", "both"} /\ p = SavePath(c[2])
            THEN [ino |-> OldStagingIno(c[2]), data |-> StalePayload]
        ELSE NoFile]

\* open(path, "wb"): an existing file is truncated, a missing one created.
OpenTrunc(f, path, newIno) ==
    IF f[path].ino = 0
        THEN [f EXCEPT ![path] = [ino |-> newIno, data |-> <<>>]]
        ELSE [f EXCEPT ![path].data = <<>>]

\* One write(2) of chunk c at offset off into a file's data.
WriteAt(data, off, c) ==
    IF off < Len(data)
        THEN [data EXCEPT ![off + 1] = c]
        ELSE data \o [i \in 1..(off - Len(data)) |-> Hole] \o <<c>>

\* A write through the descriptor of inode ino lands wherever that inode
\* is linked now (nowhere, if it has been replaced away).
WriteIno(f, ino, off, c) ==
    [p \in Paths |->
        IF f[p].ino = ino /\ ino # 0
            THEN [f[p] EXCEPT !.data = WriteAt(f[p].data, off, c)]
            ELSE f[p]]

\* A rename that leaves an existing destination as it is (os.rename on
\* Windows refuses to overwrite).
ReplaceKeepsExisting(f, src, dst) ==
    IF f[dst].ino # 0 THEN f
    ELSE [f EXCEPT ![dst] = f[src], ![src] = NoFile]
\* os.replace(src, dst) on an existing src.
Replace(f, src, dst) ==
    IF src = dst THEN f
    ELSE [f EXCEPT ![dst] = f[src], ![src] = NoFile]

\* ------------------------------------------------------------ the network
Contains(sub, s) ==
    \E i \in 0..(Len(s) - Len(sub)) : SubSeq(s, i + 1, i + Len(sub)) = sub

ContentTypes == { <<"a", "/", "p", "d", "f">>, <<"t", "/", "h">> }
HeaderSets == { <<>> } \cup { ("content-type" :> ct) : ct \in ContentTypes }

Response(u, status, headers) ==
    [url |-> u, status_code |-> status, headers |-> headers,
     content |-> Payload(u)]

\* What rq.get(url, timeout=TIMEOUT) can do: raise, or return a response.
GetOutcomes(u) ==
    { [kind |-> "exc", e |-> [type |-> "RequestException", url |-> u]] }
    \cup { [kind |-> "resp", r |-> Response(u, 200, h)] : h \in HeaderSets }
    \cup { [kind |-> "resp",
            r |-> Response(u, 404, ("content-type" :> <<"a", "/", "p", "d", "f">>))] }

NoResponse == [url |-> "", status_code |-> 0, headers |-> <<>>, content |-> <<>>]

\* ------------------------------------------------- helpers of thread_job
IsNotNan(x) == x # "nan"

\* _unpack_input: the name is column 0, the other cells are links, "nan"
\* cells are dropped and the order of the rest is kept.
UnpackName(input) == input[1]
UnpackLinks(input) == SelectSeq(Tail(input), IsNotNan)

\* _file_exists
FileExists(f, name) == f[FinalPath(name)].ino # 0

\* Mutant: the gate ignores the do_download_all flag.
ShouldSkipIgnoringFlag(downloadAll, f, name) == FileExists(f, name)
\* thread_job's gate: DOWNLOAD_ALL == False and _file_exists(name)
ShouldSkip(downloadAll, f, name) == downloadAll = FALSE /\ FileExists(f, name)

\* response.headers["content-type"] raises KeyError without that header.
HeaderMissing(r) == "content-type" \notin DOMAIN r.headers
\* _is_correct_filetype: FILETYPE in response.headers["content-type"]
IsCorrectFiletype(r) == Contains(FILETYPE, r.headers["content-type"])

\* The else branch of _try_links' loop body raises (KeyError) when a 200
\* response carries no content-type header; nothing catches it.
AcceptRaises(o) ==
    o.kind = "resp" /\ o.r.status_code = 200 /\ HeaderMissing(o.r)
\* The acceptance check with the test of status_code left out.
AcceptedAnyStatus(o) ==
    o.kind = "resp" /\ ~HeaderMissing(o.r) /\ IsCorrectFiletype(o.r)
\* _try_links' acceptance check: status 200 and a matching content type.
Accepted(o) ==
    o.kind = "resp" /\ o.r.status_code = 200 /\ ~HeaderMissing(o.r)
    /\ IsCorrectFiletype(o.r)

\* Mutant: the first acceptable response is kept.
TryStepFirstWins(res, o) ==
    IF Accepted(o) /\ res = NoResponse THEN o.r ELSE res
\* One pass of _try_links' loop body over res: "res = r" when accepted.
TryStep(res, o) == IF Accepted(o) THEN o.r ELSE res

\* Mutant: a response that fails the acceptance check is recorded too.
ExcStepAlsoRejected(exceptions, o) ==
    IF o.kind = "exc" THEN Append(exceptions, o.e)
    ELSE IF ~Accepted(o) /\ ~AcceptRaises(o)
        THEN Append(exceptions, [type |-> "Rejected", url |-> o.r.url])
        ELSE exceptions
\* One pass of _try_links' loop body over exceptions: the except branch.
ExcStep(exceptions, o) ==
    IF o.kind = "exc" THEN Append(exceptions, o.e) ELSE exceptions

\* str(e) and " ; AND ; ".join(...), over token sequences.
ExcStr(e) == <<e.type, e.url>>
RECURSIVE Join(_, _)
Join(strs, sep) ==
    IF strs = <<>> THEN <<>>
    ELSE IF Len(strs) = 1 THEN strs[1]
    ELSE strs[1] \o <<sep>> \o Join(Tail(strs), sep)

\* What _save_file writes: response.content (IS_BIN) or response.text, the
\* same body decoded; either way the chunks of the body.
SaveData(r) == r.content

\* Mutant: the append reads the list, then stores the extended copy, and
\* an entry appended in between is overwritten.
AddToReportLossy(reps, name, success, response, exceptions) ==
    LET s == [name |-> name, success |-> success,
              from_url |-> IF response # NoResponse THEN response.url ELSE "",
              exceptions_encountered |->
                  IF exceptions # <<>>
                      THEN Join([i \in 1..Len(exceptions) |-> ExcStr(exceptions[i])],
                                " ; AND ; ")
                      ELSE <<>>]
    IN IF reps = <<>> THEN <<s>> ELSE [reps EXCEPT ![Len(reps)] = s]
\* _add_to_report: build the entry and append it to the shared list.
AddToReport(reps, name, success, response, exceptions) ==
    LET s == [name |-> name, success |-> success,
              from_url |-> IF response # NoResponse THEN response.url ELSE "",
              exceptions_encountered |->
                  IF exceptions # <<>>
                      THEN Join([i \in 1..Len(exceptions) |-> ExcStr(exceptions[i])],
                                " ; AND ; ")
                      ELSE <<>>]
    IN Append(reps, s)

\* ---------------------------------------------------------- the executor
Terminal == {"skipped", "done", "raised"}
Waiting == {"unsubmitted", "queued"}
TaskIds == 1..Len(tasks)
\* A worker thread that is lost when its job raises.
RunningKeepsRaised == {t \in TaskIds : tasks[t].pc \notin ({"skipped", "done"} \cup Waiting)}
Running == {t \in TaskIds : tasks[t].pc \notin (Terminal \cup Waiting)}
WorkerLimit ==
    IF connections_limit = NoLimit THEN DefaultWorkers ELSE connections_limit

\* Mutant: leaving the with block does not wait for the workers.
AllFinishedNoWait == TRUE
\* ThreadPoolExecutor.__exit__ (shutdown(wait=True)) and cf.wait(fs)
\* return once every submitted future has finished.
AllFinished == \A t \in TaskIds : tasks[t].pc \in Terminal

NewTask(input) ==
    [pc |-> "unsubmitted", input |-> input, name |-> "", links |-> <<>>,
     k |-> 1, res |-> NoResponse, exceptions |-> <<>>, attempts |-> <<>>,
     gate |-> "unchecked", ino |-> 0, off |-> 0, err |-> ""]

\* ------------------------------------------------------------------ input
LinkColChoices == {SubSeq(AllLinkCols, 1, n) : n \in 1..MaxLinkCols}
RowCells(cols) ==
    {<<n>> \o c : n \in NameSet,
                 c \in [1..Len(cols) -> {"nan"}] \cup
                       {[j \in 1..Len(cols) |-> IF j \in S THEN cols[j] ELSE "nan"]
                            : S \in SUBSET (1..Len(cols))}}
RECURSIVE SeqsUpTo(_, _)
SeqsUpTo(S, n) ==
    IF n = 0 THEN {<<>>}
    ELSE LET shorter == SeqsUpTo(S, n - 1)
         IN shorter \cup {Append(s, x) : s \in {q \in shorter : Len(q) = n - 1}, x \in S}
\* Names are taken up to renaming: a row's name is one already used or the
\* next unused one.
Canonical(data) ==
    \A i \in 1..Len(data) :
        \/ Rank(data[i][1]) = 1
        \/ \E j \in 1..(i - 1) : Rank(data[j][1]) >= Rank(data[i][1]) - 1
\* Input files: up to MaxRows rows under one link column, or up to one row
\* under several.
InputFiles(cols) ==
    {data \in SeqsUpTo(RowCells(cols), IF Len(cols) = 1 THEN MaxRows ELSE 1) :
        Canonical(data)}
\* Input files of exactly PoolRows rows with pairwise distinct names.
PoolFiles(cols) ==
    {data \in [1..PoolRows -> RowCells(cols)] :
        \A i \in 1..PoolRows : data[i][1] = Names[i]}

\* ------------------------------------------------------------------- Init
\* The program's own state when main is entered.
Started ==
    /\ mainPc = "init"
    /\ rows = <<>>
    /\ nextRow = 1
    /\ tasks = <<>>
    /\ reports = <<>>
    /\ reportFile = [state |-> "absent", rows |-> <<>>]
    /\ writeCalls = 0

\* A one-column input of PoolRows rows with distinct names, none of them
\* downloaded before, given to a pool of fewer workers (at least two, so
\* that jobs run side by side); every job evaluates the gate.
InitPool ==
    /\ settingsState = "ok"
    /\ DOWNLOAD_ALL = FALSE
    /\ LINK_COLS = SubSeq(AllLinkCols, 1, 1)
    /\ connections_limit \in 2..(PoolRows - 1)
    /\ inputFile \in PoolFiles(LINK_COLS)
    /\ fs = PriorFs(<<"none", Names[1]>>)
    /\ Started

\* A one-column input of up to MaxRows rows, nothing downloaded before,
\* given to an unlimited pool or to a single worker.
InitFair ==
    /\ settingsState = "ok"
    /\ DOWNLOAD_ALL = FALSE
    /\ LINK_COLS = SubSeq(AllLinkCols, 1, 1)
    /\ connections_limit \in {NoLimit, 1}
    /\ inputFile \in InputFiles(LINK_COLS)
    /\ fs = PriorFs(<<"none", Names[1]>>)
    /\ Started

Init ==
    /\ settingsState \in {"ok", "missing_key", "bad_input", "bad_report"}
    /\ DOWNLOAD_ALL \in BOOLEAN
    /\ LINK_COLS \in LinkColChoices
    /\ connections_limit \in {NoLimit, 1}
    /\ inputFile \in InputFiles(LINK_COLS)
    /\ \E c \in PriorChoices : fs = PriorFs(c)
    /\ settingsState # "ok" =>
          /\ DOWNLOAD_ALL = TRUE
          /\ LINK_COLS = SubSeq(AllLinkCols, 1, 1)
          /\ settingsState = "bad_input" => inputFile = <<>>
          /\ connections_limit = NoLimit
          /\ fs = PriorFs(<<"none", Names[1]>>)
    /\ Started

\* ------------------------------------------------------- the main thread
\* dl.init(SETTINGS): a missing key prints a message and exits.
MainInit ==
    /\ mainPc = "init"
    /\ mainPc' = IF settingsState = "missing_key" THEN "exit" ELSE "test_settings"
    /\ UNCHANGED <<settingsState, DOWNLOAD_ALL, LINK_COLS, inputFile, connections_limit,
                   rows, nextRow, tasks, fs, reports, reportFile, writeCalls>>

\* _test_file that prints its message and returns instead of exiting.
TestFileFailsSilently(s, which) == FALSE
\* _test_file(path, mode): opening the path fails and the program exits.
TestFileFails(s, which) ==
    \/ which = "input" /\ s = "bad_input"
    \/ which = "report" /\ s = "bad_report"

\* dl.test_settings(): open INPUT_FILE for reading, then REPORT_FILE for
\* writing (which creates or empties it); either failure exits.
TestSettings ==
    /\ mainPc = "test_settings"
    /\ IF TestFileFails(settingsState, "input")
          THEN mainPc' = "exit" /\ UNCHANGED reportFile
          ELSE IF TestFileFails(settingsState, "report")
              THEN mainPc' = "exit" /\ UNCHANGED reportFile
              ELSE /\ mainPc' = "load_input"
                   /\ reportFile' = [state |-> "empty", rows |-> <<>>]
    /\ UNCHANGED <<settingsState, DOWNLOAD_ALL, LINK_COLS, inputFile, connections_limit,
                   rows, nextRow, tasks, fs, reports, writeCalls>>

\* data = dl.load_input(); reports = []
LoadInput ==
    /\ mainPc = "load_input"
    /\ rows' = inputFile
    /\ tasks' = [i \in 1..Len(inputFile) |-> NewTask(inputFile[i])]
    /\ nextRow' = 1
    /\ reports' = <<>>
    /\ mainPc' = "submit"
    /\ UNCHANGED <<settingsState, DOWNLOAD_ALL, LINK_COLS, inputFile, connections_limit,
                   fs, reportFile, writeCalls>>

\* fs.append(executor.submit(dl.thread_job, row, reports))
Submit ==
    /\ mainPc = "submit"
    /\ nextRow <= Len(rows)
    /\ tasks' = [tasks EXCEPT ![nextRow].pc = "queued"]
    /\ nextRow' = nextRow + 1
    /\ UNCHANGED <<settingsState, DOWNLOAD_ALL, LINK_COLS, inputFile, connections_limit,
                   mainPc, rows, fs, reports, reportFile, writeCalls>>

\* Leaving the with block: executor.shutdown(wait=True).
ExecutorExit ==
    /\ mainPc = "submit"
    /\ nextRow > Len(rows)
    /\ AllFinished
    /\ mainPc' = "wait"
    /\ UNCHANGED <<settingsState, DOWNLOAD_ALL, LINK_COLS, inputFile, connections_limit,
                   rows, nextRow, tasks, fs, reports, reportFile, writeCalls>>

\* cf.wait(fs)
Wait ==
    /\ mainPc = "wait"
    /\ AllFinished
    /\ mainPc' = "write_report"
    /\ UNCHANGED <<settingsState, DOWNLOAD_ALL, LINK_COLS, inputFile, connections_limit,
                   rows, nextRow, tasks, fs, reports, reportFile, writeCalls>>

\* Each pass of write_report's loop appends one row and sorts by name.
NameLess(x, y) == Rank(x.name) < Rank(y.name)
\* The loop with the result of sort_values dropped instead of assigned to df.
SortedFrameUnassigned(reps) == reps
RECURSIVE SortedFrame(_)
SortedFrame(reps) ==
    IF reps = <<>> THEN <<>>
    ELSE LET df == SortedFrame(SubSeq(reps, 1, Len(reps) - 1))
             item == reps[Len(reps)]
         IN SortSeq(Append(df, item), NameLess)

\* dl.write_report(reports), then return.
WriteReport ==
    /\ mainPc = "write_report"
    /\ reportFile' = [state |-> "written", rows |-> SortedFrame(reports)]
    /\ writeCalls' = writeCalls + 1
    /\ mainPc' = "done"
    /\ UNCHANGED <<settingsState, DOWNLOAD_ALL, LINK_COLS, inputFile, connections_limit,
                   rows, nextRow, tasks, fs, reports>>

\* ------------------------------------------------------- the job threads
\* A worker takes the oldest queued job; thread_job unpacks the row and
\* evaluates the gate.
Start(t) ==
    /\ t \in TaskIds
    /\ tasks[t].pc = "queued"
    /\ \A u \in TaskIds : u < t => tasks[u].pc # "queued"
    /\ Cardinality(Running) < WorkerLimit
    /\ LET name == UnpackName(tasks[t].input)
           links == UnpackLinks(tasks[t].input)
           exists == FileExists(fs, name)
           skip == ShouldSkip(DOWNLOAD_ALL, fs, name)
       IN tasks' = [tasks EXCEPT ![t] =
              [@ EXCEPT !.name = name, !.links = links,
                        !.gate = IF DOWNLOAD_ALL # FALSE THEN "unchecked"
                                 ELSE IF exists THEN "exists" ELSE "absent",
                        !.pc = IF skip THEN "skipped"
                               ELSE IF links = <<>> THEN "report"
                               ELSE "try_links"]]
    /\ UNCHANGED <<settingsState, DOWNLOAD_ALL, LINK_COLS, inputFile, connections_limit,
                   mainPc, rows, nextRow, fs, reports, reportFile, writeCalls>>

\* thread_job with the call of _save_file left out.
AfterTryLinksNoSave(res) == "report"
\* thread_job after _try_links: a winner is saved and then reported, no
\* winner is reported at once.
AfterTryLinks(res) == IF res # NoResponse THEN "save_open" ELSE "report"

\* One pass of _try_links' loop: rq.get on the next link.
Fetch(t) ==
    /\ t \in TaskIds
    /\ tasks[t].pc = "try_links"
    /\ \E o \in GetOutcomes(tasks[t].links[tasks[t].k]) :
          LET res == TryStep(tasks[t].res, o)
              last == tasks[t].k = Len(tasks[t].links)
          IN tasks' = [tasks EXCEPT ![t] =
                 [@ EXCEPT !.attempts = Append(@, o),
                           !.k = @ + 1,
                           !.exceptions = ExcStep(@, o),
                           !.res = IF AcceptRaises(o) THEN @ ELSE res,
                           !.err = IF AcceptRaises(o) THEN "KeyError" ELSE @,
                           !.pc = IF AcceptRaises(o) THEN "raised"
                                  ELSE IF ~last THEN "try_links"
                                  ELSE AfterTryLinks(res)]]
    /\ UNCHANGED <<settingsState, DOWNLOAD_ALL, LINK_COLS, inputFile, connections_limit,
                   mainPc, rows, nextRow, fs, reports, reportFile, writeCalls>>

\* _save_file: open(save_path, "wb")
SaveOpen(t) ==
    /\ t \in TaskIds
    /\ tasks[t].pc = "save_open"
    /\ LET path == SavePath(tasks[t].name)
           f == OpenTrunc(fs, path, t)
       IN /\ fs' = f
          /\ tasks' = [tasks EXCEPT ![t] =
                 [@ EXCEPT !.ino = f[path].ino, !.off = 0, !.pc = "save_write"]]
    /\ UNCHANGED <<settingsState, DOWNLOAD_ALL, LINK_COLS, inputFile, connections_limit,
                   mainPc, rows, nextRow, reports, reportFile, writeCalls>>

\* _save_file: f.write(...), one chunk; the file is closed after the last.
SaveWrite(t) ==
    /\ t \in TaskIds
    /\ tasks[t].pc = "save_write"
    /\ LET data == SaveData(tasks[t].res)
           off == tasks[t].off
       IN /\ fs' = WriteIno(fs, tasks[t].ino, off, data[off + 1])
          /\ tasks' = [tasks EXCEPT ![t] =
                 [@ EXCEPT !.off = off + 1,
                           !.pc = IF off + 1 = Len(data) THEN "save_replace"
                                  ELSE "save_write"]]
    /\ UNCHANGED <<settingsState, DOWNLOAD_ALL, LINK_COLS, inputFile, connections_limit,
                   mainPc, rows, nextRow, reports, reportFile, writeCalls>>

\* _save_file: os.replace(save_path, final_path); FileNotFoundError when
\* the staging path no longer exists.
SaveReplace(t) ==
    /\ t \in TaskIds
    /\ tasks[t].pc = "save_replace"
    /\ LET src == SavePath(tasks[t].name)
           dst == FinalPath(tasks[t].name)
       IN IF fs[src].ino = 0
             THEN /\ tasks' = [tasks EXCEPT ![t] =
                         [@ EXCEPT !.pc = "raised", !.err = "FileNotFoundError"]]
                  /\ UNCHANGED fs
             ELSE /\ fs' = Replace(fs, src, dst)
                  /\ tasks' = [tasks EXCEPT ![t].pc = "report"]
    /\ UNCHANGED <<settingsState, DOWNLOAD_ALL, LINK_COLS, inputFile, connections_limit,
                   mainPc, rows, nextRow, reports, reportFile, writeCalls>>

\* An OSError (disk full, permission, ...) raised by open, write or
\* os.replace leaves the folders as they are and ends thread_job.
SaveError(t) ==
    /\ t \in TaskIds
    /\ tasks[t].pc \in {"save_open", "save_write", "save_replace"}
    /\ tasks' = [tasks EXCEPT ![t] = [@ EXCEPT !.pc = "raised", !.err = "OSError"]]
    /\ UNCHANGED <<settingsState, DOWNLOAD_ALL, LINK_COLS, inputFile, connections_limit,
                   mainPc, rows, nextRow, fs, reports, reportFile, writeCalls>>

\* _add_to_report(...) on either branch, then thread_job returns.
Report(t) ==
    /\ t \in TaskIds
    /\ tasks[t].pc = "report"
    /\ reports' = AddToReport(reports, tasks[t].name,
                              tasks[t].res # NoResponse, tasks[t].res,
                              tasks[t].exceptions)
    /\ tasks' = [tasks EXCEPT ![t].pc = "done"]
    /\ UNCHANGED <<settingsState, DOWNLOAD_ALL, LINK_COLS, inputFile, connections_limit,
                   mainPc, rows, nextRow, fs, reportFile, writeCalls>>

\* Any job thread may take its next step.
StartJob == \E t \in TaskIds : Start(t)
FetchJob == \E t \in TaskIds : Fetch(t)
SaveOpenJob == \E t \in TaskIds : SaveOpen(t)
SaveWriteJob == \E t \in TaskIds : SaveWrite(t)
SaveReplaceJob == \E t \in TaskIds : SaveReplace(t)
SaveErrorJob == \E t \in TaskIds : SaveError(t)
ReportJob == \E t \in TaskIds : Report(t)

Next ==
    \/ MainInit
    \/ TestSettings
    \/ LoadInput
    \/ Submit
    \/ ExecutorExit
    \/ Wait
    \/ WriteReport
    \/ StartJob
    \/ FetchJob
    \/ SaveOpenJob
    \/ SaveWriteJob
    \/ SaveReplaceJob
    \/ SaveErrorJob
    \/ ReportJob

Spec == Init /\ [][Next]_vars

SpecPool == InitPool /\ [][Next]_vars
\* The program under a scheduler that lets a thread that can take a step
\* take one: worker threads and the main thread are OS threads, and every
\* rq.get returns or times out (timeout=TIMEOUT).
FairSpec == InitFair /\ [][Next]_vars /\ WF_vars(Next)

\* ================================================================ claims
RowName(t) == UnpackName(tasks[t].input)
UniqueNames ==
    \A i, j \in 1..Len(inputFile) : i # j => inputFile[i][1] # inputFile[j][1]
Entries(n) == {i \in 1..Len(reports) : reports[i].name = n}
\* _try_links has returned in task t (normally, not by an exception).
TryLinksReturned(t) ==
    /\ tasks[t].pc \notin (Waiting \cup {"skipped", "try_links"})
    /\ tasks[t].err # "KeyError"
AcceptedAt(t) == {i \in 1..Len(tasks[t].attempts) : Accepted(tasks[t].attempts[i])}
IsExc(o) == o.kind = "exc"
\* The failures of task t's attempts, in attempt order.
Failures(t) ==
    LET excs == SelectSeq(tasks[t].attempts, IsExc)
    IN [i \in 1..Len(excs) |-> excs[i].e]
\* The data at the final path of name n is a whole file: the one an earlier
\* run left, or the whole payload of a response a row of that name accepted.
WholeFile(n) ==
    \/ fs[FinalPath(n)].data = OldPayload
    \/ \E t \in TaskIds : /\ RowName(t) = n
                          /\ tasks[t].res # NoResponse
                          /\ fs[FinalPath(n)].data = SaveData(tasks[t].res)

\* C1: write_report starts only after every submitted job has returned or
\* raised, every row having been submitted, and it is called exactly once.
C1_JoinBeforeReport ==
    /\ (mainPc \in {"write_report", "done"} \/ reportFile.state = "written") =>
          /\ nextRow > Len(rows)
          /\ \A t \in TaskIds : tasks[t].pc \in {"skipped", "done", "raised"}
    /\ writeCalls = (IF mainPc = "done" THEN 1 ELSE 0)
    /\ reportFile.state = "written" <=> mainPc = "done"
C1_Witness ==
    /\ mainPc = "done"
    /\ writeCalls = 1
    /\ connections_limit = 1
    /\ \E t, u \in TaskIds : tasks[t].pc = "raised" /\ tasks[u].pc = "done"

\* C2: once all jobs have finished, reports holds exactly one entry per row,
\* skipped rows included.
C2_OneEntryPerRow ==
    mainPc \in {"write_report", "done"} =>
        /\ Len(reports) = Len(rows)
        /\ \A n \in NameSet :
              Cardinality(Entries(n)) =
              Cardinality({i \in 1..Len(rows) : rows[i][1] = n})

C4_FinalPathNeverPartial ==
    UniqueNames =>
        \A n \in NameSet : fs[FinalPath(n)].ino = 0 \/ WholeFile(n)
C4_Witness ==
    /\ UniqueNames
    /\ \E t \in TaskIds :
          /\ tasks[t].pc = "raised"
          /\ tasks[t].err = "OSError"
          /\ tasks[t].ino # 0
          /\ fs[SavePath(RowName(t))].ino # 0
          /\ fs[SavePath(RowName(t))].data # SaveData(tasks[t].res)
          /\ fs[FinalPath(RowName(t))].data = OldPayload

C6_FirstAcceptableWins ==
    \A t \in TaskIds :
        (TryLinksReturned(t) /\ AcceptedAt(t) # {}) =>
            \E i \in AcceptedAt(t) :
                /\ \A j \in AcceptedAt(t) : i <= j
                /\ tasks[t].res = tasks[t].attempts[i].r
                /\ tasks[t].pc = "done" => fs[FinalPath(RowName(t))].data =
                                              SaveData(tasks[t].attempts[i].r)

\* C7: a job whose gate found do_download_all false and the final file
\* present is skipped, having fetched nothing and opened no file; and a job
\* is skipped only then (never when do_download_all is true).
C7_GateSkipsOnlyExisting ==
    \A t \in TaskIds :
        /\ tasks[t].gate = "exists" =>
              /\ tasks[t].pc = "skipped"
              /\ tasks[t].attempts = <<>>
              /\ tasks[t].ino = 0
        /\ tasks[t].pc = "skipped" =>
              /\ DOWNLOAD_ALL = FALSE
              /\ tasks[t].gate = "exists"
        /\ tasks[t].gate = "unchecked" =>
              (DOWNLOAD_ALL = TRUE \/ tasks[t].pc \in Waiting)
        /\ (tasks[t].gate = "absent" \/ DOWNLOAD_ALL = TRUE) =>
              tasks[t].pc # "skipped"
C7_Witness ==
    /\ mainPc = "done"
    /\ DOWNLOAD_ALL = FALSE
    /\ \E t, u \in TaskIds :
          /\ tasks[t].pc = "skipped"
          /\ fs[FinalPath(RowName(t))].data = OldPayload
          /\ fs[SavePath(RowName(t))].data = StalePayload
          /\ tasks[u].pc = "done"
          /\ tasks[u].gate = "absent"
          /\ tasks[u].ino # 0

\* C8: the exceptions list holds exactly the failures of the attempts whose
\* fetch raised, in attempt order, while the loop goes on to the remaining
\* candidates; a rejected response adds none and a raised fetch never ends
\* the job; the entry of a finished row carries these failures, joined,
\* whether it succeeded or not.
C8_TransportFailuresRecorded ==
    \A t \in TaskIds :
      LET failures == Failures(t) IN
        /\ tasks[t].exceptions = failures
        /\ Len(tasks[t].attempts) = tasks[t].k - 1
        /\ (tasks[t].pc = "try_links") = 
              (tasks[t].pc \notin (Waiting \cup {"skipped"})
               /\ tasks[t].k <= Len(tasks[t].links)
               /\ tasks[t].err # "KeyError")
        /\ tasks[t].err = "KeyError" =>
              AcceptRaises(tasks[t].attempts[Len(tasks[t].attempts)])
        /\ tasks[t].pc = "done" =>
              \E i \in Entries(tasks[t].name) :
                  /\ reports[i].success = (tasks[t].res # NoResponse)
                  /\ reports[i].exceptions_encountered =
                        Join([j \in 1..Len(failures) |-> ExcStr(failures[j])],
                             " ; AND ; ")
C8_Witness ==
    \E t \in TaskIds :
        /\ tasks[t].pc = "done"
        /\ Len(tasks[t].attempts) = 3
        /\ tasks[t].attempts[1].kind = "exc"
        /\ tasks[t].attempts[2].kind = "exc"
        /\ Accepted(tasks[t].attempts[3])
        /\ \E i \in Entries(tasks[t].name) :
              /\ reports[i].success
              /\ reports[i].exceptions_encountered =
                    <<"RequestException", "A", " ; AND ; ", "RequestException", "B">>

\* C9: a row whose staging write or move raised a filesystem error still
\* has a report entry, a failed one that carries the error.
C9_FilesystemErrorReported ==
    mainPc = "done" =>
        \A t \in TaskIds :
            tasks[t].err \in {"OSError", "FileNotFoundError"} =>
                \E i \in Entries(tasks[t].name) :
                    /\ reports[i].success = FALSE
                    /\ reports[i].exceptions_encountered # <<>>

\* C10: when two jobs of the same name both found the final file absent at
\* the gate and went on, neither fails in os.replace and the final path
\* never holds anything but a whole file.
C10_SameNameRaceHarmless ==
    \A t, u \in TaskIds :
        (/\ t # u
         /\ RowName(t) = RowName(u)
         /\ tasks[t].gate = "absent" /\ tasks[u].gate = "absent"
         /\ tasks[t].err # "OSError" /\ tasks[u].err # "OSError") =>
            /\ tasks[t].err # "FileNotFoundError"
            /\ fs[FinalPath(RowName(t))].ino = 0 \/ WholeFile(RowName(t))

\* C11: the rows write_report hands to the report file are in ascending order
\* of name and are exactly the entries of reports, whatever the order the
\* jobs appended them in and however many there are, none included.
C11_ReportSortedByName ==
    reportFile.state = "written" =>
        LET df == reportFile.rows
        IN /\ Len(df) = Len(reports)
           /\ \A i \in 1..Len(df) : \A j \in 1..Len(df) :
                  i < j => Rank(df[i].name) <= Rank(df[j].name)
           /\ \A e \in {reports[i] : i \in 1..Len(reports)} :
                  Cardinality({i \in 1..Len(df) : df[i] = e})
                  = Cardinality({i \in 1..Len(reports) : reports[i] = e})
\* Two jobs appended in descending order of name and the file has them
\* ascending.
C11_Witness ==
    /\ reportFile.state = "written"
    /\ Len(reports) = 2
    /\ Rank(reports[1].name) > Rank(reports[2].name)
    /\ Rank(reportFile.rows[1].name) < Rank(reportFile.rows[2].name)


\* C12: a row that is not skipped and for which no candidate is accepted
\* leaves no file behind (its job never opens the staging path) and has,
\* once the run is over, exactly one report entry, with success false and an
\* empty source URL.
C12_FailedRowReportedOnce ==
    (mainPc = "done" /\ UniqueNames) =>
        \A t \in TaskIds :
            (tasks[t].pc # "skipped" /\ tasks[t].res = NoResponse) =>
                /\ tasks[t].ino = 0
                /\ Cardinality(Entries(RowName(t))) = 1
                /\ \A i \in Entries(RowName(t)) :
                       reports[i].success = FALSE /\ reports[i].from_url = ""


\* C13: once a job has raised out of thread_job, or has found every one of
\* its candidates failing, every other row still reaches its own terminal
\* outcome and the main thread still writes the report.
C13_FailureDoesNotAbortOthers ==
    (\E t \in TaskIds :
        \/ tasks[t].pc = "raised"
        \/ tasks[t].pc = "report" /\ tasks[t].res = NoResponse)
    ~> (/\ mainPc = "done"
        /\ reportFile.state = "written"
        /\ \A u \in TaskIds : tasks[u].pc \in Terminal)
\* With one worker, the first row's job raised, and the second row's job,
\* which ran after it, is done and its entry is in the written report.
C13_Witness ==
    /\ mainPc = "done"
    /\ connections_limit = 1
    /\ Len(tasks) = 2
    /\ tasks[1].pc = "raised"
    /\ tasks[2].pc = "done"
    /\ Len(reportFile.rows) = 1


\* C14: a row whose link fields are all 'nan' has an empty candidate list,
\* makes no fetch attempt, and has, once the run is over, a report entry
\* with success false, empty failure details and an empty source URL.
C14_AllNanRowReportedFailed ==
    \A t \in TaskIds :
        (\A j \in 2..Len(tasks[t].input) : tasks[t].input[j] = "nan") =>
            /\ UnpackLinks(tasks[t].input) = <<>>
            /\ tasks[t].attempts = <<>>
            /\ (mainPc = "done" /\ UniqueNames) =>
                   \E i \in Entries(RowName(t)) :
                       /\ reports[i].success = FALSE
                       /\ reports[i].exceptions_encountered = <<>>
                       /\ reports[i].from_url = ""

\* C15: with DOWNLOAD_ALL true and distinct names, a job that has saved its
\* winner leaves the final path holding exactly the winner's payload and
\* the staging path gone, whatever an earlier run left at either path (a
\* second run of the row ends as the first did), and files left by an
\* earlier run never make os.replace fail.
C15_RerunOverwrites ==
    (DOWNLOAD_ALL = TRUE /\ UniqueNames) =>
        \A t \in TaskIds :
            /\ tasks[t].err # "FileNotFoundError"
            /\ (tasks[t].pc \in {"report", "done"} /\ tasks[t].res # NoResponse) =>
                   /\ fs[FinalPath(RowName(t))].data = SaveData(tasks[t].res)
                   /\ fs[SavePath(RowName(t))] = NoFile
\* An earlier run left both a downloaded file and a stale staged file for
\* the first name; the job reused the staged file, and the final path now
\* holds the new payload.
C15_Witness ==
    /\ DOWNLOAD_ALL = TRUE
    /\ UniqueNames
    /\ \E t \in TaskIds :
          /\ tasks[t].pc = "done"
          /\ RowName(t) = Names[1]
          /\ tasks[t].gate = "unchecked"
          /\ tasks[t].ino = OldStagingIno(Names[1])
          /\ fs[FinalPath(Names[1])].ino = OldStagingIno(Names[1])
          /\ fs[FinalPath(Names[1])].data = SaveData(tasks[t].res)
          /\ fs[FinalPath(Names[1])].data # OldPayload

\* C16: when a settings key is missing, or the input or the report path
\* fails its access test, the program exits before anything is dispatched:
\* no job is submitted, nothing is fetched, no entry is appended and the
\* report file is neither written nor emptied.
C16_ConfigErrorStopsBeforeDispatch ==
    settingsState # "ok" =>
        /\ mainPc \in {"init", "test_settings", "exit"}
        /\ \A t \in TaskIds : tasks[t].pc = "unsubmitted" /\ tasks[t].attempts = <<>>
        /\ reports = <<>>
        /\ reportFile.state = "absent"
        /\ writeCalls = 0
        /\ \A p \in Paths : fs[p].ino <= 0
\* The report path fails its test, the input has rows, and the program has
\* exited with nothing dispatched.
C16_Witness ==
    /\ settingsState = "bad_report"
    /\ inputFile # <<>>
    /\ mainPc = "exit"
    /\ tasks = <<>>


\* C17: every row ends in one of three states and stays there: skipped, or
\* persisted and reported, or failed and reported. When the run is over,
\* each row's job is in one of the three.
C17_RowEndsInOneOfThree ==
    mainPc = "done" =>
        \A t \in TaskIds :
            \/ tasks[t].pc = "skipped"
            \/ /\ tasks[t].pc = "done"
               /\ tasks[t].res # NoResponse
               /\ \E i \in Entries(RowName(t)) : reports[i].success = TRUE
            \/ /\ tasks[t].pc = "done"
               /\ tasks[t].res = NoResponse
               /\ \E i \in Entries(RowName(t)) : reports[i].success = FALSE


\* C18: with distinct names, whenever reports holds a success entry for a
\* name, the final path of that name already holds the whole payload of the
\* row's winning response, and the entry's source URL is that response's.
C18_PersistBeforeReport ==
    UniqueNames =>
        \A i \in 1..Len(reports) :
            reports[i].success = TRUE =>
                \E t \in TaskIds :
                    /\ RowName(t) = reports[i].name
                    /\ tasks[t].res # NoResponse
                    /\ tasks[t].res.status_code = 200
                    /\ fs[FinalPath(reports[i].name)].data = tasks[t].res.content
                    /\ Len(fs[FinalPath(reports[i].name)].data) = ChunkCount
                    /\ reports[i].from_url = tasks[t].res.url
\* A success entry is in reports while the job of another row has yet to
\* rename its staged file.
C18_Witness ==
    /\ UniqueNames
    /\ \E i \in 1..Len(reports) : reports[i].success = TRUE
    /\ \E u \in TaskIds : tasks[u].pc = "save_replace"
    /\ mainPc = "submit"


\* C19: a response whose content type contains FILETYPE but whose status is
\* not 200 is never the winner and adds nothing to the recorded failures;
\* a job all of whose candidates answered that way goes on to report with
\* no winner and no failure, and its entry is a failed one with empty
\* failure details.
C19_WrongStatusSilentlyRejected ==
    \A t \in TaskIds :
        LET att == tasks[t].attempts
            wrong == {i \in 1..Len(att) :
                         /\ att[i].kind = "resp"
                         /\ att[i].r.status_code # 200
                         /\ "content-type" \in DOMAIN att[i].r.headers
                         /\ Contains(FILETYPE, att[i].r.headers["content-type"])}
        IN /\ \A i \in wrong :
                  /\ tasks[t].res # att[i].r
                  /\ \A j \in 1..Len(tasks[t].exceptions) :
                         tasks[t].exceptions[j].url # att[i].r.url
           /\ (wrong # {} /\ Cardinality(wrong) = Len(tasks[t].links)) =>
                  /\ tasks[t].pc \in {"report", "done"}
                  /\ tasks[t].res = NoResponse
                  /\ tasks[t].exceptions = <<>>
                  /\ (tasks[t].pc = "done" /\ UniqueNames) =>
                         /\ Cardinality(Entries(RowName(t))) = 1
                         /\ \A e \in Entries(RowName(t)) :
                                /\ reports[e].success = FALSE
                                /\ reports[e].exceptions_encountered = <<>>
                                /\ reports[e].from_url = ""
\* A row of MaxLinkCols links, every one answered with a matching content
\* type and a status other than 200, is done with a failed entry.
C19_Witness ==
    \E t \in TaskIds :
        /\ tasks[t].pc = "done"
        /\ Len(tasks[t].links) = MaxLinkCols
        /\ \A i \in 1..MaxLinkCols :
              /\ tasks[t].attempts[i].kind = "resp"
              /\ tasks[t].attempts[i].r.status_code # 200
              /\ IsCorrectFiletype(tasks[t].attempts[i].r)
        /\ \E e \in Entries(RowName(t)) : reports[e].success = FALSE

====
